---- MODULE Spec2Model ----
(***************************************************************************)
(* Model of the sidecar supervisor of the desktop shell:                   *)
(*   packages/desktop/src-tauri/src/sidecar.rs  (start_api_server)         *)
(*   packages/desktop/src-tauri/src/main.rs     (setup closure)            *)
(*   packages/desktop/src-tauri/src/tray.rs     (setup_tray)               *)
(*                                                                         *)
(* Time is a discrete clock in milliseconds that advances in steps of one  *)
(* poll interval.  tokio's sleep() completes no earlier than its deadline, *)
(* and may complete later; a connect takes zero or more clock steps.       *)
(* The child (node) is the environment: it writes, binds and exits         *)
(* nondeterministically; whether another process holds the port is fixed   *)
(* for a run.                                                              *)
(***************************************************************************)
EXTENDS Integers, Sequences, FiniteSets, TLC

----------------------------------------------------------------------------
(* Program constants *)

PollAttempts == 30
PollInterval == 500

(* Bounds of the model *)

\* lines the child writes in all
MaxLines == 2
\* clock steps beyond the ones the sleeps need (scheduling delay, connect time)
MaxLate == 1

----------------------------------------------------------------------------
(* Values *)

Streams == {"stdout", "stderr"}

\* The text of the lines the child writes, in the order it writes them.
Script == <<"ready", "oops", "warn", "bye">>
TextOf(n) == Script[(n % Len(Script)) + 1]

\* What the child can write as its line number n (from 0): that text as valid
\* UTF-8, or bytes that are not valid UTF-8 (next_line() then yields Err
\* instead of Ok(Some(line))).
Items(n) == { [text |-> TextOf(n), utf8 |-> u] : u \in BOOLEAN }

\* Delay (ms after the spawn) after which the child's script binds the port;
\* NoListen: the script never binds it.
NoListen == 0 - 1
ListenDelays == {1000}

\* resource_dir() of the platform, when the lookup succeeds
PlatformResourceDir == <<"resources">>

\* PathBuf::join
Join(path, comp) == Append(path, comp)

\* mutant: a failed lookup does not fall back to the current directory
ResourceDir_NoFallback(lookupOk) == IF lookupOk THEN PlatformResourceDir ELSE <<>>

\* lines 9-12: resource_dir().unwrap_or_else(|_| PathBuf::from("."))
ResourceDir(lookupOk) == IF lookupOk THEN PlatformResourceDir ELSE <<".">>

\* line 14
ApiEntry(lookupOk) == Join(Join(ResourceDir(lookupOk), "api-server"), "index.js")

\* println!("[API] {}", line) / eprintln!("[API ERR] {}", line)
StdoutTag == "[API] "
StderrTag == "[API ERR] "
Tag(s) == IF s = "stdout" THEN StdoutTag ELSE StderrTag
Format(tag, line) == tag \o line

MsgDevelopment == "Development mode: API server should be started separately with pnpm dev:api"
MsgStarting    == "Starting API server from: "
MsgReady       == "API server is ready on port 2620"
MsgTimedOut    == "API server started (health check timed out, continuing anyway)"
MsgSpawnFailed == "Failed to start API server: "

----------------------------------------------------------------------------
VARIABLES
  \* build and file system, fixed for one run
  mode,           \* cfg!(debug_assertions): "Development" or "Production"
  entryOnDisk,    \* whether the file that api_entry names exists
  listenDelay,    \* when the child's script binds the port (NoListen: never)
  otherListening, \* whether a process that is not the child holds the port
  \* host (main.rs, setup closure)
  hostPc,
  \* supervisor task (main.rs 15-19 running start_api_server)
  pc, result, apiEntry, attempts, wakeAt, spawnCalls,
  probe,          \* the TcpStream of the current attempt: "none",
                  \* "connecting" (connect pending) or "open" (established)
  \* relay tasks (sidecar.rs 32-38, 42-48)
  relay,
  \* child process and its pipes
  child, pipe, written, childPort,
  \* the host process's own stdout and stderr
  outLog, errLog,
  \* time: milliseconds since the supervisor began, and the delays so far
  clock, lateTicks

envVars   == <<mode, entryOnDisk, listenDelay, otherListening>>
supVars   == <<pc, result, apiEntry, attempts, wakeAt, spawnCalls, probe>>
childVars == <<child, pipe, written, childPort>>
logVars   == <<outLog, errLog>>
timeVars  == <<clock, lateTicks>>
vars == <<envVars, hostPc, supVars, relay, childVars, logVars, timeVars>>

----------------------------------------------------------------------------
Init ==
  /\ mode \in {"Development", "Production"}
  /\ entryOnDisk \in BOOLEAN
  \* node cannot run a script that is not there: such a child never listens
  /\ listenDelay \in (IF entryOnDisk THEN ListenDelays ELSE {NoListen})
  /\ otherListening \in BOOLEAN
  /\ hostPc = "setup"
  /\ pc = "unspawned"
  /\ result = "none"
  /\ apiEntry = <<>>
  /\ attempts = 0
  /\ wakeAt = 0
  /\ spawnCalls = 0
  /\ probe = "none"
  /\ relay = [s \in Streams |-> "none"]
  /\ child = "none"
  /\ pipe = [s \in Streams |-> <<>>]
  /\ written = [s \in Streams |-> <<>>]
  /\ childPort = "unbound"
  /\ outLog = <<>>
  /\ errLog = <<>>
  /\ clock = 0
  /\ lateTicks = 0

\* A connect to 127.0.0.1:2620 succeeds iff some process is accepting there.
Listening == childPort = "bound" \/ otherListening

Terminal == {"Skipped", "SpawnFailed", "Ready", "TimedOutContinuing"}

----------------------------------------------------------------------------
(* Host: main.rs, the setup closure *)

\* main.rs 14-19: tauri::async_runtime::spawn(async move { ... }) makes the
\* supervisor a task of its own; the closure does not await it.
HostSpawnTask ==
  /\ hostPc = "setup"
  /\ hostPc' = "tray"
  /\ pc' = "start"
  /\ UNCHANGED <<envVars, result, apiEntry, attempts, wakeAt, spawnCalls,
                 probe, relay, childVars, logVars, timeVars>>

\* mutant: the closure waits for the supervisor and hands its error on
HostSetupTray_Awaits ==
  /\ hostPc = "tray"
  /\ pc \in Terminal
  /\ \E trayOk \in BOOLEAN :
       hostPc' = IF trayOk /\ result = "Ok" THEN "running" ELSE "setup_failed"
  /\ UNCHANGED <<envVars, supVars, relay, childVars, logVars, timeVars>>

\* main.rs 22-24: tray::setup_tray(app)?; Ok(())
\* setup_tray (tray.rs 7-30) fails when a menu item, the menu or the icon
\* cannot be built.
HostSetupTray ==
  /\ hostPc = "tray"
  /\ \E trayOk \in BOOLEAN :
       hostPc' = IF trayOk THEN "running" ELSE "setup_failed"
  /\ UNCHANGED <<envVars, supVars, relay, childVars, logVars, timeVars>>

----------------------------------------------------------------------------
(* Supervisor: sidecar.rs start_api_server, and the task that runs it *)

\* mutant: the mode check never skips
IsDevelopment_Never(m) == FALSE

\* sidecar.rs 17: cfg!(debug_assertions)
IsDevelopment(m) == m = "Development"

\* sidecar.rs 9-20
StartSkipped ==
  /\ pc = "start"
  /\ IsDevelopment(mode)
  /\ \E lookupOk \in BOOLEAN : apiEntry' = ApiEntry(lookupOk)
  /\ outLog' = Append(outLog, MsgDevelopment)
  /\ pc' = "Skipped"
  /\ result' = "Ok"
  /\ UNCHANGED <<envVars, hostPc, attempts, wakeAt, spawnCalls, probe, relay,
                 childVars, errLog, timeVars>>

\* mutant: the spawn error is returned, yet the polling loop is entered
StartSpawnFailed_Polls ==
  /\ pc = "start"
  /\ ~IsDevelopment(mode)
  /\ \E lookupOk \in BOOLEAN : apiEntry' = ApiEntry(lookupOk)
  /\ outLog' = Append(outLog, MsgStarting)
  /\ spawnCalls' = spawnCalls + 1
  /\ pc' = "sleeping"
  /\ wakeAt' = clock + PollInterval
  /\ result' = "Err"
  /\ errLog' = Append(errLog, MsgSpawnFailed)
  /\ UNCHANGED <<envVars, hostPc, attempts, probe, relay, childVars, timeVars>>

\* mutant: a failed spawn is tried again
StartSpawnFailed_Retries ==
  /\ pc = "start"
  /\ ~IsDevelopment(mode)
  /\ spawnCalls < 3
  /\ \E lookupOk \in BOOLEAN : apiEntry' = ApiEntry(lookupOk)
  /\ outLog' = Append(outLog, MsgStarting)
  /\ spawnCalls' = spawnCalls + 1
  /\ UNCHANGED <<envVars, hostPc, pc, result, attempts, wakeAt, probe, relay,
                 childVars, errLog, timeVars>>

\* sidecar.rs 9-29 with Command::spawn() failing (`?` returns the error),
\* then main.rs 16-18 logging it.  Whether the OS can start "node" does not
\* depend on the script path passed to it as an argument.
StartSpawnFailed ==
  /\ pc = "start"
  /\ ~IsDevelopment(mode)
  /\ \E lookupOk \in BOOLEAN : apiEntry' = ApiEntry(lookupOk)
  /\ outLog' = Append(outLog, MsgStarting)
  /\ spawnCalls' = spawnCalls + 1
  /\ pc' = "SpawnFailed"
  /\ result' = "Err"
  /\ errLog' = Append(errLog, MsgSpawnFailed)
  /\ UNCHANGED <<envVars, hostPc, attempts, wakeAt, probe, relay, childVars,
                 timeVars>>

\* mutant: the loop connects first and sleeps after a failed attempt
StartSpawned_ProbesFirst ==
  /\ pc = "start"
  /\ ~IsDevelopment(mode)
  /\ \E lookupOk \in BOOLEAN : apiEntry' = ApiEntry(lookupOk)
  /\ outLog' = Append(outLog, MsgStarting)
  /\ spawnCalls' = spawnCalls + 1
  /\ child' = "running"
  /\ relay' = [s \in Streams |-> "reading"]
  /\ pc' = "connecting"
  /\ probe' = "connecting"
  /\ attempts' = attempts + 1
  /\ UNCHANGED <<envVars, hostPc, result, wakeAt, pipe, written,
                 childPort, errLog, clock, lateTicks>>

\* sidecar.rs 9-53 with Command::spawn() succeeding: the child runs with both
\* pipes open, both relay tasks are spawned and the first sleep begins.
StartSpawned ==
  /\ pc = "start"
  /\ ~IsDevelopment(mode)
  /\ \E lookupOk \in BOOLEAN : apiEntry' = ApiEntry(lookupOk)
  /\ outLog' = Append(outLog, MsgStarting)
  /\ spawnCalls' = spawnCalls + 1
  /\ child' = "running"
  /\ relay' = [s \in Streams |-> "reading"]
  /\ pc' = "sleeping"
  /\ wakeAt' = clock + PollInterval
  /\ UNCHANGED <<envVars, hostPc, result, attempts, probe, pipe, written,
                 childPort, errLog, clock, lateTicks>>

\* mutant: the delay is not awaited
SleepDone_NoDelay ==
  /\ pc = "sleeping"
  /\ attempts' = attempts + 1
  /\ pc' = "connecting"
  /\ probe' = "connecting"
  /\ UNCHANGED <<envVars, hostPc, result, apiEntry, wakeAt, spawnCalls, relay,
                 childVars, logVars, timeVars>>

\* mutant: the child's output is drained inline, so the first connect
\* waits until both relays have ended
SleepDone_AfterRelays ==
  /\ pc = "sleeping"
  /\ clock >= wakeAt
  /\ \A s \in Streams : relay[s] = "done"
  /\ attempts' = attempts + 1
  /\ pc' = "connecting"
  /\ probe' = "connecting"
  /\ UNCHANGED <<envVars, hostPc, result, apiEntry, wakeAt, spawnCalls, relay,
                 childVars, logVars, timeVars>>

\* sidecar.rs 53-54: the sleep completes (not before its deadline) and the
\* connect of this iteration begins.
SleepDone ==
  /\ pc = "sleeping"
  /\ clock >= wakeAt
  /\ attempts' = attempts + 1
  /\ pc' = "connecting"
  /\ probe' = "connecting"
  /\ UNCHANGED <<envVars, hostPc, result, apiEntry, wakeAt, spawnCalls, relay,
                 childVars, logVars, timeVars>>

\* mutant: the loop has no attempt budget
MoreAttempts_Unbounded(n) == TRUE

\* mutant: the loop runs one iteration more
MoreAttempts_OneMore(n) == n <= PollAttempts

\* mutant: the loop gives up as soon as the child is seen to have exited
MoreAttempts_WhileChildRuns(n) == n < PollAttempts /\ child = "running"

\* sidecar.rs 52: for _ in 0..30
MoreAttempts(n) == n < PollAttempts

\* mutant: the first successful connect is not taken as readiness
ConnectOk_NotFirst == Listening /\ attempts > 1

\* mutant: the probe succeeds only when the spawned child is the listener
ConnectOk_ChildOnly == childPort = "bound"

\* sidecar.rs 54: TcpStream::connect("127.0.0.1:2620").await.is_ok()
ConnectOk == Listening

\* mutant: the exhausted attempt budget is returned as an error
TimedOutResult_Err == "Err"

\* sidecar.rs 61: the value returned after the loop
TimedOutResult == "Ok"

\* mutant: the established stream is kept instead of being dropped
ProbeAfterCheck_KeptOpen == "open"

\* sidecar.rs 54: the Result<TcpStream> is a temporary of the `if`
\* condition; it is dropped, and the connection closed, as soon as is_ok()
\* has been evaluated, before the block of the `if` runs.
ProbeAfterCheck == "none"

\* mutant: the child is killed when the supervisor returns and drops its
\* handle (a Command built with kill_on_drop)
ConnectDone_KillOnDrop ==
  /\ pc = "connecting"
  /\ IF ConnectOk
       THEN /\ probe' = ProbeAfterCheck
            /\ outLog' = Append(outLog, MsgReady)
            /\ pc' = "Ready"
            /\ result' = "Ok"
            /\ child' = "exited"
            /\ UNCHANGED wakeAt
       ELSE IF MoreAttempts(attempts)
       THEN /\ probe' = "none"
            /\ pc' = "sleeping"
            /\ wakeAt' = clock + PollInterval
            /\ UNCHANGED <<outLog, result, child>>
       ELSE /\ probe' = "none"
            /\ outLog' = Append(outLog, MsgTimedOut)
            /\ pc' = "TimedOutContinuing"
            /\ result' = TimedOutResult
            /\ child' = "exited"
            /\ UNCHANGED wakeAt
  /\ UNCHANGED <<envVars, hostPc, apiEntry, attempts, spawnCalls, relay,
                 pipe, written, childPort, errLog, timeVars>>

\* sidecar.rs 54-61: the connect resolves.  On success the stream, a
\* temporary of the `if` condition, is dropped before the block runs.
ConnectDone ==
  /\ pc = "connecting"
  /\ IF ConnectOk
       THEN /\ probe' = ProbeAfterCheck
            /\ outLog' = Append(outLog, MsgReady)
            /\ pc' = "Ready"
            /\ result' = "Ok"
            /\ UNCHANGED wakeAt
       ELSE IF MoreAttempts(attempts)
       THEN /\ probe' = "none"
            /\ pc' = "sleeping"
            /\ wakeAt' = clock + PollInterval
            /\ UNCHANGED <<outLog, result>>
       ELSE /\ probe' = "none"
            /\ outLog' = Append(outLog, MsgTimedOut)
            /\ pc' = "TimedOutContinuing"
            /\ result' = TimedOutResult
            /\ UNCHANGED wakeAt
  /\ UNCHANGED <<envVars, hostPc, apiEntry, attempts, spawnCalls, relay,
                 childVars, errLog, timeVars>>

----------------------------------------------------------------------------
(* Relay tasks: sidecar.rs 32-38 (stdout) and 42-48 (stderr) *)

\* mutant: a new entry is put before the earlier ones
Log_Prepends(s, entry) ==
  IF s = "stdout"
    THEN outLog' = <<entry>> \o outLog /\ UNCHANGED errLog
    ELSE errLog' = <<entry>> \o errLog /\ UNCHANGED outLog

\* println! (stdout relay) writes to the host's stdout, eprintln! (stderr
\* relay) to its stderr
Log(s, entry) ==
  IF s = "stdout"
    THEN outLog' = Append(outLog, entry) /\ UNCHANGED errLog
    ELSE errLog' = Append(errLog, entry) /\ UNCHANGED outLog

\* The write end of the child's pipe s is open while the child runs.
PipeOpen(s) == child = "running"

\* mutant: a line that cannot be read is skipped and the loop goes on
RelayRead_SkipsUnreadable(s) ==
  /\ relay[s] = "reading"
  /\ IF pipe[s] # <<>>
       THEN /\ pipe' = [pipe EXCEPT ![s] = Tail(pipe[s])]
            /\ IF Head(pipe[s]).utf8
                 THEN /\ Log(s, Format(Tag(s), Head(pipe[s]).text))
                      /\ UNCHANGED relay
                 ELSE /\ UNCHANGED relay
                      /\ UNCHANGED logVars
       ELSE /\ ~PipeOpen(s)
            /\ relay' = [relay EXCEPT ![s] = "done"]
            /\ UNCHANGED <<pipe, logVars>>
  /\ UNCHANGED <<envVars, hostPc, supVars, child, written, childPort, timeVars>>

\* while let Ok(Some(line)) = lines.next_line().await { println!(...) }
\* One read: a line is logged with its tag; end-of-stream (Ok(None)) or a
\* read error (Err) ends the loop and the task.
RelayRead(s) ==
  /\ relay[s] = "reading"
  /\ IF pipe[s] # <<>>
       THEN /\ pipe' = [pipe EXCEPT ![s] = Tail(pipe[s])]
            /\ IF Head(pipe[s]).utf8
                 THEN /\ Log(s, Format(Tag(s), Head(pipe[s]).text))
                      /\ UNCHANGED relay
                 ELSE /\ relay' = [relay EXCEPT ![s] = "done"]
                      /\ UNCHANGED logVars
       ELSE /\ ~PipeOpen(s)
            /\ relay' = [relay EXCEPT ![s] = "done"]
            /\ UNCHANGED <<pipe, logVars>>
  /\ UNCHANGED <<envVars, hostPc, supVars, child, written, childPort, timeVars>>

----------------------------------------------------------------------------
(* Environment: the child process and time *)

LinesWritten == Len(written["stdout"]) + Len(written["stderr"])

ChildWrite(s, item) ==
  /\ child = "running"
  /\ LinesWritten < MaxLines
  /\ pipe' = [pipe EXCEPT ![s] = Append(pipe[s], item)]
  /\ written' = [written EXCEPT ![s] = Append(written[s], item)]
  /\ UNCHANGED <<envVars, hostPc, supVars, relay, child, childPort, logVars,
                 timeVars>>

\* The child's script is due to bind the port.
ChildDue ==
  /\ child = "running"
  /\ listenDelay # NoListen
  /\ childPort = "unbound"
  /\ clock >= listenDelay

\* bind() fails when another process holds the port
ChildListen ==
  /\ ChildDue
  /\ childPort' = IF otherListening THEN "refused" ELSE "bound"
  /\ UNCHANGED <<envVars, hostPc, supVars, relay, child, pipe, written,
                 logVars, timeVars>>

\* The child exits: its pipes reach end-of-stream, its port is released.
ChildExit ==
  /\ child = "running"
  /\ child' = "exited"
  /\ childPort' = IF childPort = "bound" THEN "closed" ELSE childPort
  /\ UNCHANGED <<envVars, hostPc, supVars, relay, pipe, written, logVars,
                 timeVars>>

\* Time passes by one poll interval; the clock counts from the moment the
\* supervisor begins (the spawn happens in its first step).  Time does not
\* pass the instant at which the child is due to bind.  A step that no
\* pending sleep needs is a delay (scheduling, connect time); the model
\* allows MaxLate of them.
Tick ==
  /\ pc \notin {"unspawned", "start"}
  /\ ~ChildDue
  /\ clock' = clock + PollInterval
  /\ IF pc = "sleeping" /\ clock < wakeAt
       THEN UNCHANGED lateTicks
       ELSE lateTicks < MaxLate /\ lateTicks' = lateTicks + 1
  /\ UNCHANGED <<envVars, hostPc, supVars, relay, childVars, logVars>>

----------------------------------------------------------------------------
Next ==
  \/ HostSpawnTask
  \/ HostSetupTray
  \/ StartSkipped
  \/ StartSpawnFailed
  \/ StartSpawned
  \/ SleepDone
  \/ ConnectDone
  \/ \E s \in Streams : RelayRead(s)
  \/ \E s \in Streams : \E item \in Items(LinesWritten) : ChildWrite(s, item)
  \/ ChildListen
  \/ ChildExit
  \/ Tick

Spec == Init /\ [][Next]_vars

\* The steps of the supervisor task itself.
SupervisorStep ==
  StartSkipped \/ StartSpawnFailed \/ StartSpawned \/ SleepDone \/ ConnectDone

\* The runtime keeps running the supervisor task, each delay and each connect
\* resolves, time passes, and a bind that is due takes place.
LiveSpec ==
  /\ Spec
  /\ WF_vars(SupervisorStep)
  /\ WF_vars(Tick)
  /\ WF_vars(ChildListen)

----------------------------------------------------------------------------
(* Properties *)

\* The supervisor has begun a delay or a connect at some point.
Polled == attempts > 0 \/ wakeAt > 0

\* C1 as stated: every Production-mode run whose entry path does not exist
\* ends in a spawn error, and never polls.
C1_MissingEntryIsSpawnError ==
  (mode = "Production" /\ ~entryOnDisk /\ pc \notin {"unspawned", "start"})
    => (pc = "SpawnFailed" /\ ~Polled)

\* C1 amended: a Production-mode run returns the spawn error exactly when
\* starting "node" fails, and then no delay and no connect is ever performed;
\* a missing entry path does not make the spawn fail: when node starts, the
\* supervisor polls as for any other child and returns a non-error outcome.
C1_SpawnErrorNeverPolls ==
  /\ result = "Err" => (pc = "SpawnFailed" /\ ~Polled /\ child = "none")
  /\ pc = "SpawnFailed" => (result = "Err" /\ mode = "Production")
  /\ (mode = "Production" /\ ~entryOnDisk /\ child # "none")
       => (Polled /\ result # "Err")

C1_Witness == pc = "SpawnFailed" /\ ~entryOnDisk /\ clock > 0

\* C2: in Development mode the supervisor returns Skipped (Ok) in its first
\* step: no process is spawned, no relay is started, no delay and no connect
\* is performed, whatever the resource directory lookup gave.
C2_DevelopmentSkips ==
  mode = "Development" =>
    /\ pc \in {"unspawned", "start", "Skipped"}
    /\ pc = "Skipped" => result = "Ok"
    /\ spawnCalls = 0 /\ child = "none"
    /\ \A s \in Streams : relay[s] = "none"
    /\ ~Polled

C2_Witness == mode = "Development" /\ pc = "Skipped" /\ apiEntry = ApiEntry(FALSE)

\* No process has accepted on the readiness address so far.
NeverListened == ~otherListening /\ childPort = "unbound"

\* C3: when no listener ever accepts after a successful spawn, the supervisor
\* makes exactly PollAttempts connection attempts, the n-th not before n full
\* poll intervals have elapsed, and returns the non-error TimedOutContinuing.
C3_TimesOutAfterAllAttempts ==
  /\ pc = "connecting" => clock >= attempts * PollInterval
  /\ (NeverListened /\ pc \in {"Ready", "TimedOutContinuing"})
       => pc = "TimedOutContinuing"
  /\ pc = "TimedOutContinuing"
       => /\ attempts = PollAttempts
          /\ clock >= PollAttempts * PollInterval
          /\ result = "Ok"

C3_Witness ==
  /\ NeverListened /\ child = "running"
  /\ pc = "TimedOutContinuing" /\ clock = PollAttempts * PollInterval

\* C4: when a listener is accepting as the first connection attempt
\* resolves, the supervisor returns Ready at that first attempt; and the
\* number of connection attempts never exceeds PollAttempts.
C4_ReadyAtFirstAttempt ==
  /\ [](attempts <= PollAttempts)
  /\ [][(pc = "connecting" /\ attempts = 1 /\ Listening /\ pc' # pc)
          => (pc' = "Ready" /\ result' = "Ok" /\ attempts' = 1)]_vars

C4_Witness == pc = "Ready" /\ attempts = 1 /\ childPort = "bound"

\* Command::spawn() was called and gave no child.
SpawnHasFailed == spawnCalls > 0 /\ child = "none"

\* C5: start_api_server returns Err if and only if spawning the child failed;
\* failed probes, the exhausted attempt budget, a relay's stream ending and a
\* failed resource directory lookup all end in Ok.
C5_ErrIffSpawnFailed ==
  /\ pc \in Terminal <=> result \in {"Ok", "Err"}
  /\ result = "Err" <=> SpawnHasFailed

C5_Witness ==
  /\ pc = "TimedOutContinuing" /\ result = "Ok"
  /\ relay["stdout"] = "done" /\ relay["stderr"] = "done"
  /\ apiEntry = ApiEntry(FALSE)

\* C6: one invocation calls spawn at most once; after a failed spawn the
\* supervisor stays in SpawnFailed with no child, no relay task and no probe.
\* Only connection attempts are repeated.
C6_SpawnAtMostOnce ==
  /\ [](spawnCalls <= 1)
  /\ [](pc = "SpawnFailed" =>
          /\ spawnCalls = 1 /\ child = "none" /\ ~Polled
          /\ \A s \in Streams : relay[s] = "none")
  /\ [][pc = "SpawnFailed" => pc' = "SpawnFailed"]_vars

C6_Witness == pc = "SpawnFailed" /\ spawnCalls = 1 /\ lateTicks = MaxLate

\* C7: every invocation of the supervisor reaches a terminal outcome, after
\* at most PollAttempts rounds of delay and connect, whatever the child and
\* the listener do (given that each delay and each connect resolves).
C7_ReachesTerminalOutcome ==
  /\ [](attempts <= PollAttempts /\ (pc = "sleeping" => attempts < PollAttempts))
  /\ (pc = "start") ~> (pc \in Terminal)

C7_Witness ==
  /\ pc = "TimedOutContinuing" /\ attempts = PollAttempts
  /\ child = "exited" /\ childPort = "closed"

\* The entries a relay of stream s can have logged, and the ones it has.
RelayTagged(s) == { Format(Tag(s), Script[i]) : i \in 1..Len(Script) }
Channel(s) == IF s = "stdout" THEN outLog ELSE errLog
RelayLogged(s) == SelectSeq(Channel(s), LAMBDA e : e \in RelayTagged(s))

\* The log entries for a sequence of lines read from stream s.
Expected(s, lines) == [i \in 1..Len(lines) |-> Format(Tag(s), lines[i].text)]

\* The lines before the first one that cannot be read.
Unreadable(lines) == { i \in 1..Len(lines) : ~lines[i].utf8 }
ReadablePrefix(lines) ==
  IF Unreadable(lines) = {} THEN lines
  ELSE SubSeq(lines, 1,
         (CHOOSE i \in Unreadable(lines) : \A j \in Unreadable(lines) : i <= j) - 1)

IsPrefix(a, b) == Len(a) <= Len(b) /\ a = SubSeq(b, 1, Len(a))

\* C8 as stated: a relay that has terminated has logged exactly the lines the
\* child wrote to its stream, in order and tagged.
C8_RelayLogsEveryLine ==
  \A s \in Streams :
    relay[s] = "done" => RelayLogged(s) = Expected(s, written[s])

\* C8 amended: for each stream the relay logs, in order, tagged and on the
\* stream's own channel, the lines the child wrote up to the first line that
\* cannot be read (not valid UTF-8).  When every line is readable it logs
\* exactly the written lines and ends only at end-of-stream; at the first
\* unreadable line it ends at once and logs none of the later lines.
C8_RelayLogsReadablePrefix ==
  \A s \in Streams :
    /\ IsPrefix(RelayLogged(s), Expected(s, ReadablePrefix(written[s])))
    /\ relay[s] = "done"
         => RelayLogged(s) = Expected(s, ReadablePrefix(written[s]))
    /\ (relay[s] = "done" /\ Unreadable(written[s]) = {}) => ~PipeOpen(s)
    /\ \A t \in Streams \ {s} :
         \A i \in 1..Len(Channel(t)) : Channel(t)[i] \notin RelayTagged(s)

C8_Witness ==
  /\ relay["stdout"] = "done"
  /\ Len(written["stdout"]) = 2 /\ Unreadable(written["stdout"]) = {}
  /\ RelayLogged("stdout") = <<"[API] ready", "[API] oops">>

\* C9: the host's setup never waits for the supervisor: whatever the
\* supervisor task is doing or has returned, the setup closure can take its
\* next step, and can finish with Ok; a spawn failure is logged by the task
\* and does not decide the result of the setup.
C9_HostNeverWaits ==
  /\ hostPc = "setup" => ENABLED HostSpawnTask
  /\ hostPc = "tray" => ENABLED (HostSetupTray /\ hostPc' = "running")
  /\ pc = "SpawnFailed" => errLog = <<MsgSpawnFailed>>
  /\ pc # "SpawnFailed" => MsgSpawnFailed \notin {errLog[i] : i \in 1..Len(errLog)}

C9_Witness ==
  /\ hostPc = "running" /\ pc = "SpawnFailed" /\ errLog = <<MsgSpawnFailed>>

\* The scenario of C10: the child has written "ready" as its first line to
\* stdout, has bound the port one second after the spawn and is running;
\* nothing else holds the port.
C10_Scenario ==
  /\ listenDelay = 1000 /\ ~otherListening
  /\ child = "running" /\ childPort = "bound"
  /\ written["stdout"] # <<>>
  /\ Head(written["stdout"]) = [text |-> "ready", utf8 |-> TRUE]

\* C10 as stated: in that scenario Ready is returned on exactly the 3rd
\* connection attempt (here even with every delay lasting exactly one poll
\* interval and every connect taking no time).
C10_ReadyOnThirdAttempt ==
  (C10_Scenario /\ pc = "Ready" /\ lateTicks = 0) => attempts = 3

\* C10 amended: in that scenario Ready is returned on the 3rd attempt at the
\* latest and not before one second has elapsed: an attempt that resolves
\* once the port is bound succeeds, so the 2nd attempt (never before 1.0 s)
\* or a delayed 1st one can already return Ready.  The relay logs
\* "[API] ready" as its first entry once it has read the line.
C10_ReadyByThirdAttempt ==
  C10_Scenario =>
    /\ attempts <= 3
    /\ pc \in {"sleeping", "connecting", "Ready"}
    /\ pc = "Ready" => (attempts \in 1..3 /\ clock >= 1000)
    /\ (pc = "connecting" /\ attempts = 3) => clock >= 3 * PollInterval
    /\ RelayLogged("stdout") # <<>> => Head(RelayLogged("stdout")) = "[API] ready"
    /\ (relay["stdout"] = "reading" /\ pipe["stdout"] = <<>>)
         => RelayLogged("stdout") # <<>>

C10_Witness ==
  /\ C10_Scenario /\ pc = "Ready" /\ attempts = 3 /\ clock = 3 * PollInterval
  /\ RelayLogged("stdout") = <<"[API] ready">>

----------------------------------------------------------------------------
(* C11 *)

\* The supervisor has returned after polling.
Returned == pc \in {"Ready", "TimedOutContinuing"}

\* Relay s has read end-of-stream: nothing buffered, write end closed.
AtEndOfStream(s) == pipe[s] = <<>> /\ ~PipeOpen(s)

\* The next read of relay s fails: the buffered line is not valid text.
AtReadError(s) == pipe[s] # <<>> /\ ~Head(pipe[s]).utf8

\* C11 as stated: after the supervisor has returned, a relay task ends only
\* when its own stream has reached end-of-stream.
C11_RelayEndsOnlyAtEndOfStream ==
  [][\A s \in Streams :
       (Returned /\ relay[s] = "reading" /\ relay'[s] = "done")
         => AtEndOfStream(s)]_vars

\* C11 amended: no step of the supervisor, its return included, changes the
\* child process, its pipes, its port or a relay task once the child is
\* spawned; after the return a relay with a buffered line can still read it,
\* and a relay ends only on a read of its own stream that finds
\* end-of-stream or fails.
C11_ReturnLeavesChildAndRelays ==
  /\ [][(pc' # pc /\ child # "none")
           => (child' = child /\ childPort' = childPort /\ pipe' = pipe
               /\ written' = written /\ relay' = relay)]_vars
  /\ [][\A s \in Streams :
          (relay[s] = "reading" /\ relay'[s] = "done")
            => (AtEndOfStream(s) \/ AtReadError(s))]_vars
  /\ [](\A s \in Streams :
          (Returned /\ relay[s] = "reading" /\ pipe[s] # <<>>)
            => ENABLED RelayRead(s))
  /\ []((Returned /\ child = "running")
          => ENABLED ChildExit)

\* The supervisor has returned, the child still runs and the stdout relay
\* has logged a line after the supervisor's last message.
C11_Witness ==
  /\ Returned
  /\ child = "running"
  /\ relay = [s \in Streams |-> "reading"]
  /\ outLog # <<>>
  /\ outLog[Len(outLog)] \in RelayTagged("stdout")
  /\ \E i \in 1..Len(outLog) : outLog[i] \in {MsgReady, MsgTimedOut}

----------------------------------------------------------------------------
(* C12 *)

\* C12: an attempt starts only from a sleep whose deadline has passed, and
\* is then the only probe; every sleep begins at the spawn or when the
\* previous connect has resolved, lasts one full PollInterval from that
\* moment, and its deadline is not moved; so the n-th attempt is never made
\* before n intervals have elapsed, and a probe is in flight exactly while
\* the one supervisor is in its connect.
C12_EachAttemptAfterItsOwnDelay ==
  /\ [][attempts' # attempts
          => (/\ pc = "sleeping" /\ clock >= wakeAt
              /\ probe = "none" /\ probe' = "connecting"
              /\ pc' = "connecting" /\ attempts' = attempts + 1)]_vars
  /\ [][(pc' = "sleeping" /\ pc # "sleeping")
          => (/\ pc \in {"start", "connecting"}
              /\ probe' = "none"
              /\ wakeAt' = clock + PollInterval)]_vars
  /\ [][pc = "sleeping" => wakeAt' = wakeAt]_vars
  /\ [](pc = "sleeping" => wakeAt >= (attempts + 1) * PollInterval)
  /\ [](pc = "connecting" => (clock >= wakeAt /\ wakeAt >= attempts * PollInterval))
  /\ [](probe = "connecting" <=> pc = "connecting")

\* The second attempt is in flight, begun two full intervals after the spawn
\* and one after the first attempt failed.
C12_Witness ==
  /\ pc = "connecting"
  /\ probe = "connecting"
  /\ attempts = 2
  /\ wakeAt = 2 * PollInterval
  /\ clock = wakeAt

----------------------------------------------------------------------------
(* C13 *)

\* C13: a connect that resolves while something listens ends the polling
\* with Ready and leaves no probe connection; an established probe
\* connection exists in no state, so it is closed before Ready is logged
\* and returned; after any return there is no probe, pending or open; and
\* once Ready, the supervisor makes no further attempt and starts no
\* further delay.
C13_StopsAtFirstSuccess ==
  /\ [](probe # "open")
  /\ [](pc \in Terminal => probe = "none")
  /\ [][(pc = "connecting" /\ Listening /\ pc' # pc)
          => (pc' = "Ready" /\ probe' = "none")]_vars
  /\ [][pc = "Ready"
          => (pc' = "Ready" /\ attempts' = attempts /\ wakeAt' = wakeAt
              /\ probe' = "none" /\ result' = result)]_vars

\* Ready was returned on the second attempt; the listener is still there and
\* time has passed since, yet no further attempt was made.
C13_Witness ==
  /\ pc = "Ready"
  /\ attempts = 2
  /\ probe = "none"
  /\ Listening
  /\ outLog[Len(outLog)] = MsgReady
  /\ clock > wakeAt

----------------------------------------------------------------------------
(* C14 *)

\* The other stream.
OtherStream(s) == CHOOSE t \in Streams : t # s

\* This step is a read by relay s: it takes a line off its pipe or ends it.
IsReadBy(s) ==
  /\ relay[s] = "reading"
  /\ relay'[s] = "done" \/ Len(pipe'[s]) < Len(pipe[s])

\* C14: whatever the two relays are doing (waiting, reading, ended), a sleep
\* that is over can finish and a pending connect can resolve; whatever the
\* poller and the other relay are doing, a relay whose stream has a line or
\* has ended can read; a read by one relay changes nothing of the
\* supervisor or of the other relay and its log; a step of the poller
\* changes nothing of the relays and their logs; and what a connect
\* resolves to is fixed by the listener and the attempt count alone.
C14_TasksIndependent ==
  /\ []((pc = "sleeping" /\ clock >= wakeAt) => ENABLED SleepDone)
  /\ [](pc = "connecting" => ENABLED ConnectDone)
  /\ [](\A s \in Streams :
          (relay[s] = "reading" /\ (pipe[s] # <<>> \/ ~PipeOpen(s)))
            => ENABLED RelayRead(s))
  /\ [][\A s \in Streams :
          IsReadBy(s)
            => (/\ supVars' = supVars
                /\ timeVars' = timeVars
                /\ relay'[OtherStream(s)] = relay[OtherStream(s)]
                /\ pipe'[OtherStream(s)] = pipe[OtherStream(s)]
                /\ RelayLogged(OtherStream(s))' = RelayLogged(OtherStream(s)))]_vars
  /\ [][(pc' # pc /\ pc \in {"sleeping", "connecting"})
          => (/\ relay' = relay
              /\ pipe' = pipe
              /\ \A s \in Streams : RelayLogged(s)' = RelayLogged(s))]_vars
  /\ [][(pc = "connecting" /\ pc' # pc)
          => (/\ attempts' = attempts
              /\ pc' = IF Listening THEN "Ready"
                        ELSE IF attempts < PollAttempts THEN "sleeping"
                        ELSE "TimedOutContinuing")]_vars

\* The poller has made all its attempts and returned while the stdout relay
\* is still waiting for a line of the running child and the stderr relay
\* has ended.
C14_Witness ==
  /\ pc = "TimedOutContinuing"
  /\ attempts = PollAttempts
  /\ child = "running"
  /\ relay["stdout"] = "reading"
  /\ pipe["stdout"] = <<>>
  /\ relay["stderr"] = "done"

----------------------------------------------------------------------------
(* C15 *)

\* C15: the step in which the child exits changes nothing of the
\* supervisor; with the child gone a sleep that is over still finishes and
\* a pending connect still resolves; a connect that fails with the child
\* gone leads to the next sleep while attempts remain and to
\* TimedOutContinuing with Ok only after the last one; and once a child was
\* spawned the result is never Err.
C15_ChildExitUnobserved ==
  /\ [][(child = "running" /\ child' = "exited") => supVars' = supVars]_vars
  /\ []((child = "exited" /\ pc = "sleeping" /\ clock >= wakeAt)
          => ENABLED SleepDone)
  /\ []((child = "exited" /\ pc = "connecting") => ENABLED ConnectDone)
  /\ [][(child = "exited" /\ pc = "connecting" /\ ~Listening /\ pc' # pc)
          => IF attempts < PollAttempts
               THEN pc' = "sleeping" /\ result' = "none"
                    /\ wakeAt' = clock + PollInterval
               ELSE pc' = "TimedOutContinuing" /\ result' = "Ok"]_vars
  /\ []((child = "exited" /\ pc = "TimedOutContinuing")
          => attempts = PollAttempts)
  /\ [](child # "none" => result # "Err")

\* The child has exited without ever listening, nothing else listens, and
\* the supervisor is in its last attempt.
C15_Witness ==
  /\ child = "exited"
  /\ childPort = "unbound"
  /\ ~Listening
  /\ pc = "connecting"
  /\ attempts = PollAttempts
  /\ result = "none"

----------------------------------------------------------------------------
(* C16 *)

\* C16: a connect resolves to Ready exactly when something listens on the
\* port at that moment, the spawned child or any other process; Ready is
\* entered in no other way; and while another process listens, a pending
\* connect can resolve to Ready whatever the state of the child and of its
\* port.
C16_ReadyIffSomeListener ==
  /\ [][(pc = "connecting" /\ pc' # pc)
          => ((pc' = "Ready" /\ result' = "Ok") <=> Listening)]_vars
  /\ [][(pc' = "Ready" /\ pc # "Ready")
          => (pc = "connecting" /\ Listening)]_vars
  /\ []((pc = "connecting" /\ otherListening)
          => ENABLED (ConnectDone /\ pc' = "Ready"))

\* Ready was returned although the spawned child never bound the port and
\* has exited: the listener is another process.
C16_Witness ==
  /\ pc = "Ready"
  /\ result = "Ok"
  /\ otherListening
  /\ childPort \in {"unbound", "refused"}
  /\ child = "exited"

----------------------------------------------------------------------------
(* C17 *)

\* C17: a read that fails ends the relay in that very step, and the step
\* logs nothing on either channel and changes nothing of the supervisor or
\* of the other relay; a relay ends in no other way than at a failed read
\* or at end-of-stream; a relay that has ended never runs again, takes
\* nothing more off its pipe and logs nothing more, whatever the child
\* writes; the error channel holds nothing but relayed stderr lines and the
\* spawn failure message; and after a relay has ended the other relay can
\* still read and the poller can still proceed.
C17_RelayStopsAtFirstFailedRead ==
  /\ [][\A s \in Streams :
          (relay[s] = "reading" /\ AtReadError(s)
             /\ Len(pipe'[s]) < Len(pipe[s]))
            => (/\ relay'[s] = "done"
                /\ logVars' = logVars
                /\ supVars' = supVars
                /\ relay'[OtherStream(s)] = relay[OtherStream(s)]
                /\ pipe'[OtherStream(s)] = pipe[OtherStream(s)])]_vars
  /\ [][\A s \in Streams :
          (relay[s] = "reading" /\ relay'[s] # "reading")
            => (/\ relay'[s] = "done"
                /\ AtReadError(s) \/ AtEndOfStream(s)
                /\ logVars' = logVars)]_vars
  /\ [][\A s \in Streams :
          relay[s] = "done"
            => (/\ relay'[s] = "done"
                /\ Len(pipe'[s]) >= Len(pipe[s])
                /\ RelayLogged(s)' = RelayLogged(s))]_vars
  /\ [](\A i \in 1..Len(errLog) :
          errLog[i] \in RelayTagged("stderr") \cup {MsgSpawnFailed})
  /\ [](\A s \in Streams :
          relay[s] = "done"
            => (/\ (relay[OtherStream(s)] = "reading"
                       /\ pipe[OtherStream(s)] # <<>>)
                     => ENABLED RelayRead(OtherStream(s))
                /\ (pc = "sleeping" /\ clock >= wakeAt) => ENABLED SleepDone
                /\ pc = "connecting" => ENABLED ConnectDone))

\* The stdout relay has ended at a line it could not read while the child
\* runs; the line the child wrote afterwards stays unread and unlogged, the
\* stderr relay is still reading and the poller is still polling.
C17_Witness ==
  /\ relay["stdout"] = "done"
  /\ child = "running"
  /\ Len(written["stdout"]) = 2
  /\ ~written["stdout"][1].utf8
  /\ Len(pipe["stdout"]) = 1
  /\ RelayLogged("stdout") = <<>>
  /\ errLog = <<>>
  /\ relay["stderr"] = "reading"
  /\ pc = "connecting"
  /\ attempts = 2

----------------------------------------------------------------------------
(* C18 *)

\* The entry path after a failed lookup of the resource directory.
FallbackEntry == <<".", "api-server", "index.js">>

\* C18: when the supervisor begins, each of its first steps (the skip of a
\* development build, the spawn, the failed spawn) can be taken with the
\* entry path ./api-server/index.js of a failed lookup exactly when it can
\* be taken with the path of a successful one; the path is set in that
\* step only and never read again; and with the fallback path the result
\* is Err only when the spawn itself failed, Ready and TimedOutContinuing
\* being reached by the same polling.
C18_LookupFailureFallsBack ==
  /\ [](apiEntry \in {<<>>, ApiEntry(TRUE), FallbackEntry})
  /\ [](pc = "start"
          => (/\ ENABLED (StartSkipped /\ apiEntry' = FallbackEntry)
                   <=> IsDevelopment(mode)
              /\ ENABLED (StartSpawned /\ apiEntry' = FallbackEntry)
                   <=> ~IsDevelopment(mode)
              /\ ENABLED (StartSpawnFailed /\ apiEntry' = FallbackEntry)
                   <=> ~IsDevelopment(mode)
              /\ ENABLED (StartSkipped /\ apiEntry' = ApiEntry(TRUE))
                   <=> IsDevelopment(mode)
              /\ ENABLED (StartSpawned /\ apiEntry' = ApiEntry(TRUE))
                   <=> ~IsDevelopment(mode)
              /\ ENABLED (StartSpawnFailed /\ apiEntry' = ApiEntry(TRUE))
                   <=> ~IsDevelopment(mode)))
  /\ [][apiEntry' # apiEntry => (pc = "start" /\ apiEntry = <<>>)]_vars
  /\ []((apiEntry = FallbackEntry /\ result = "Err") => SpawnHasFailed)
  /\ []((apiEntry = FallbackEntry /\ pc = "TimedOutContinuing")
          => (attempts = PollAttempts /\ result = "Ok"))
  /\ []((apiEntry = FallbackEntry /\ pc = "Skipped")
          => (IsDevelopment(mode) /\ spawnCalls = 0 /\ result = "Ok"))

\* The lookup failed, the child was spawned with the fallback path, bound
\* the port and the second probe found it.
C18_Witness ==
  /\ apiEntry = FallbackEntry
  /\ pc = "Ready"
  /\ result = "Ok"
  /\ attempts = 2
  /\ childPort = "bound"

====
